---- MODULE Spec2Model ----
(***************************************************************************)
(* Model of the kanban front end: the task-board state of KanbanBoard.tsx   *)
(* (optimistic status change, rollback, fetch, delete, create), the         *)
(* refresh-then-retry response interceptor and the list normalisation of    *)
(* services/api.ts, the delete handlers of the projects list and of the     *)
(* admin page, and the session of AuthContext with the login pages and      *)
(* ProtectedAdminRoute.  Each part has its own specification over the one   *)
(* set of variables: Spec, MoveSpec, ApiSpec, DeleteSpec, AuthSpec,         *)
(* NormSpec.                                                                *)
(*                                                                          *)
(* The client is single threaded: every handler runs to its next await in   *)
(* one step, and a request that is awaited is a record "in flight" until    *)
(* the continuation after the await handles its response.  The REST         *)
(* backend is not part of the sources; its steps are modelled from the      *)
(* interface description (section 6 of the specification).                  *)
(***************************************************************************)
EXTENDS Integers, Sequences, FiniteSets, TLC

(* ------------------------------ bounds --------------------------------- *)
NumTasks  == 1      \* tasks of the project when the board is mounted
MaxReq    == 3      \* requests the board issues in one run
MaxCreate == 1      \* tasks created in one run
NumCalls  == 2      \* calls made through ApiClient in one run
MaxSends  == 3      \* cap on the number of times one call is sent
NumProjects == 1    \* projects of the backend
MaxLen    == 2      \* longest list in a list response

(* ----------------------------- constants ------------------------------- *)
Statuses == {"TO_DO", "IN_PROGRESS", "DONE"}     \* types/index.ts TaskStatus
\* ids a drag can end over: over.id is cast to TaskStatus without a check;
\* "card" stands for the id of a droppable that is not a column
DropIds  == Statuses \cup {"card"}
NoOver   == "null"                               \* event.over === null
TaskIds  == 1..(NumTasks + MaxCreate)
NoTask   == [id |-> 0, status |-> "", updated_at |-> 0]
ErrFetch  == "Erreur lors du chargement des taches"
ErrUpdate == "Erreur lors de la mise a jour de la tache"
ErrDelete == "Erreur lors de la suppression de la tache"
Shapes   == {"array", "results", "data", "other"}
NoBody   == [shape |-> "none", list |-> <<>>]
NoReq    == [id |-> 0, kind |-> "none", taskId |-> 0, newStatus |-> "",
             snapshot |-> "", phase |-> "none", body |-> NoBody,
             origin |-> "", clean |-> TRUE]

VARIABLES
  tasks,       \* useState<Task[]>: the in-memory collection
  loading,     \* useState(true)
  error,       \* useState('')
  activeTask,  \* useState<Task | null>
  dragging,    \* id of the draggable the DndContext holds active, 0 if none
  mounted,     \* the mount effect has run
  reqs,        \* requests in flight, each with the closure of its handler
  nextReq,     \* number of the next request
  server,      \* the project's tasks as the backend stores them
  nextTaskId,  \* the backend's next primary key
  lastTarget,  \* per task: target of the last status change since the
               \* collection was last replaced or rolled back ("" if none)
  last,        \* the handler step that ran last and the request it handled
  storage,     \* localStorage: access_token and refresh_token ("" if absent)
  location,    \* window.location.href
  calls,       \* the calls made through ApiClient.client
  projects,         \* ProjectContext useState<Project[]>
  currentProject,   \* ProjectContext currentProject (its id, 0 for null)
  projectsLoading,  \* ProjectContext isLoading
  adminProjects,    \* AdminPage useState projects
  allTasks,         \* AdminPage useState allTasks
  stats,            \* AdminPage stats: totalProjects, totalTasks
  serverProjects,   \* the projects as the backend stores them
  user,             \* AuthContext user (NoUser for null)
  isAuthenticated,  \* AuthContext isAuthenticated
  isLoading,        \* AuthContext isLoading
  authMounted,      \* the mount effect of AuthProvider has run
  loginLoading,     \* AdminLoginPage loading
  loginError,       \* AdminLoginPage error
  account,          \* the account whose credentials the user types
  response,         \* response.data of a list request
  normalized        \* what the list method returned for it

boardVars == <<tasks, loading, error, activeTask, dragging, mounted, reqs,
               nextReq, server, nextTaskId, lastTarget, last>>

apiVars == <<storage, location, calls>>

pageVars == <<projects, currentProject, projectsLoading, adminProjects,
              allTasks, stats, serverProjects>>

authVars == <<user, isAuthenticated, isLoading, authMounted, loginLoading,
              loginError, account>>

normVars == <<response, normalized>>

nonBoardVars == <<apiVars, pageVars, authVars, normVars>>

nonApiVars == <<boardVars, pageVars, authVars, normVars>>

vars == <<boardVars, apiVars, pageVars, authVars, normVars>>

(* ------------------------- helpers on task lists ----------------------- *)
Ids(ts) == {ts[i].id : i \in DOMAIN ts}

\* tasks.find(t => t.id === taskId), NoTask for undefined
Find(ts, id) ==
  IF id \in Ids(ts)
    THEN ts[CHOOSE i \in DOMAIN ts :
               ts[i].id = id /\ \A j \in DOMAIN ts : ts[j].id = id => i <= j]
    ELSE NoTask

\* variant: the mapped task is rebuilt instead of spread
MapStatus_Rebuild(ts, id, s) ==
  [i \in DOMAIN ts |->
     IF ts[i].id = id THEN [id |-> id, status |-> s, updated_at |-> 0]
     ELSE ts[i]]

\* prev.map(t => t.id === taskId ? { ...t, status: s } : t)
MapStatus(ts, id, s) ==
  [i \in DOMAIN ts |->
     IF ts[i].id = id THEN [ts[i] EXCEPT !.status = s] ELSE ts[i]]

\* prev.filter(t => t.id !== taskId)
FilterOut(ts, id) == SelectSeq(ts, LAMBDA t : t.id # id)

\* variant: no error branch, the columns are rendered with the error set
ViewOf_NoErrorPanel(l, e) == IF l THEN "spinner" ELSE "board"

\* the three render branches of KanbanBoard
ViewOf(l, e) == IF l THEN "spinner" ELSE IF e # "" THEN "error" ELSE "board"
View == ViewOf(loading, error)

\* KanbanColumn: tasks.filter(task => task.status === status)
filteredTasks(ts, status) == SelectSeq(ts, LAMBDA t : t.status = status)

\* the DndContext is part of the board branch only: a drag does not survive
\* the spinner or the error panel
DndAfter(l, e, d) == IF ViewOf(l, e) = "board" THEN d ELSE 0

\* response.data of a list request.  kind is "array" for a bare array (list
\* holds it), "object" for a non-null object, "falsy" for null, undefined,
\* '', 0 and false, "primitive" for any other value that is not an object
\* (a non-empty string, a number, true).  results and data are the fields of
\* that name of an object: absent, present without being an array, or an
\* array.
Absent       == [present |-> FALSE, array |-> FALSE, list |-> <<>>]
NonArray     == [present |-> TRUE, array |-> FALSE, list |-> <<>>]
ArrayOf(l)   == [present |-> TRUE, array |-> TRUE, list |-> l]
BareArray(l) == [kind |-> "array", list |-> l, results |-> Absent,
                 data |-> Absent]
Object(r, d) == [kind |-> "object", list |-> <<>>, results |-> r, data |-> d]
Falsy        == [kind |-> "falsy", list |-> <<>>, results |-> Absent,
                 data |-> Absent]
Primitive    == [kind |-> "primitive", list |-> <<>>, results |-> Absent,
                 data |-> Absent]

\* the body of a list response of the backend in one of its shapes
Envelope(body) ==
  CASE body.shape = "array"   -> BareArray(body.list)
    [] body.shape = "results" -> Object(ArrayOf(body.list), Absent)
    [] body.shape = "data"    -> Object(Absent, ArrayOf(body.list))
    [] OTHER                  -> Object(Absent, Absent)

Returned(l) == [raised |-> FALSE, list |-> l, done |-> TRUE]
\* the in operator applied to a value that is not an object
TypeError   == [raised |-> TRUE, list |-> <<>>, done |-> TRUE]

\* ApiClient.getProjectTasks: normalisation of the list response.
\* response.data && 'results' in response.data: a falsy value skips the in
\* test, a primitive makes it throw
getProjectTasks(d) ==
  IF d.kind = "array" THEN Returned(d.list)
  ELSE IF d.kind = "falsy" THEN Returned(<<>>)
  ELSE IF d.kind = "primitive" THEN TypeError
  ELSE IF d.results.present /\ d.results.array THEN Returned(d.results.list)
  ELSE IF d.data.present /\ d.data.array THEN Returned(d.data.list)
  ELSE Returned(<<>>)

\* ApiClient.getProjects: the same chain of tests
getProjects(d) ==
  IF d.kind = "array" THEN Returned(d.list)
  ELSE IF d.kind = "falsy" THEN Returned(<<>>)
  ELSE IF d.kind = "primitive" THEN TypeError
  ELSE IF d.results.present /\ d.results.array THEN Returned(d.results.list)
  ELSE IF d.data.present /\ d.data.array THEN Returned(d.data.list)
  ELSE Returned(<<>>)

\* A request in flight.  snapshot is task.status of the handler's closure.
\* origin and clean are history only, never read by an action's guard:
\* origin is the status of the task before the first change of the
\* overlapping sequence the request belongs to, clean says that no request of
\* that sequence has been confirmed so far.
Req(id, kind, taskId, newStatus, snapshot) ==
  [id |-> id, kind |-> kind, taskId |-> taskId, newStatus |-> newStatus,
   snapshot |-> snapshot, phase |-> "sent", body |-> NoBody,
   origin |-> snapshot, clean |-> TRUE]

\* const updateData: UpdateTaskData = { status: newStatus }
updateData(r) == [status |-> r.newStatus]

InFlight(kind, taskId) == {r \in reqs : r.kind = kind /\ r.taskId = taskId}

NoTargets == [id \in TaskIds |-> ""]

(* ------------------------------- Init ---------------------------------- *)
BoardInit ==
  /\ tasks = <<>>
  /\ loading = TRUE
  /\ error = ""
  /\ activeTask = NoTask
  /\ dragging = 0
  /\ mounted = FALSE
  /\ reqs = {}
  /\ nextReq = 1
  /\ server = [i \in 1..NumTasks |-> [id |-> i, status |-> "TO_DO", updated_at |-> 0]]
  /\ nextTaskId = NumTasks + 1
  /\ lastTarget = NoTargets
  /\ last = [op |-> "init", req |-> NoReq]

NoCall == [pc |-> "idle", url |-> "", retry |-> FALSE, sends |-> 0,
           refreshes |-> 0, auth |-> "", status |-> 0, result |-> ""]

\* ProjectProvider and AdminPage after construction
NoStats == [totalProjects |-> 0, totalTasks |-> 0]

PageInit ==
  /\ projects = <<>>
  /\ currentProject = 0
  /\ projectsLoading = FALSE
  /\ adminProjects = <<>>
  /\ allTasks = <<>>
  /\ stats = NoStats
  /\ serverProjects = [i \in 1..NumProjects |-> [id |-> i]]

\* AuthProvider after construction
NoUser == [id |-> 0, is_staff |-> FALSE, is_superuser |-> FALSE]

Accounts == {"member", "staff", "superuser"}

AuthInit ==
  /\ user = NoUser
  /\ isAuthenticated = FALSE
  /\ isLoading = TRUE
  /\ authMounted = FALSE
  /\ loginLoading = FALSE
  /\ loginError = ""

\* no list response received yet
NoData   == [kind |-> "none", list |-> <<>>, results |-> Absent,
             data |-> Absent]
NoResult == [raised |-> FALSE, list |-> <<>>, done |-> FALSE]

NormInit ==
  /\ response = NoData
  /\ normalized = NoResult

\* a session after login: both credentials stored, no call made yet
Init ==
  /\ BoardInit
  /\ PageInit
  /\ AuthInit
  /\ account = "member"
  /\ NormInit
  /\ storage = [access_token |-> "A0", refresh_token |-> "R0"]
  /\ location = "/"
  /\ calls = [c \in 1..NumCalls |-> NoCall]

(* ------------------------ KanbanBoard: fetch ---------------------------- *)
\* fetchTasks up to its await: setLoading(true); setError(''); request sent
fetchTasks(op) ==
  /\ nextReq <= MaxReq
  /\ loading' = TRUE
  /\ error' = ""
  /\ reqs' = reqs \cup {Req(nextReq, "fetch", 0, "", "")}
  /\ nextReq' = nextReq + 1
  /\ dragging' = 0
  /\ last' = [op |-> op, req |-> Req(nextReq, "fetch", 0, "", "")]

\* useEffect(() => { fetchTasks() }, [projectId]) on mount
useEffect ==
  /\ ~mounted
  /\ mounted' = TRUE
  /\ fetchTasks("useEffect")
  /\ UNCHANGED <<tasks, activeTask, server, nextTaskId, lastTarget>>
  /\ UNCHANGED nonBoardVars

\* the Reessayer button of the error panel: onClick={fetchTasks}
Retry ==
  /\ View = "error"
  /\ fetchTasks("Retry")
  /\ UNCHANGED <<tasks, activeTask, mounted, server, nextTaskId, lastTarget>>
  /\ UNCHANGED nonBoardVars

\* fetchTasks after the await, try branch: setTasks(tasksData), finally
fetchTasksOk(r) ==
  /\ r \in reqs /\ r.kind = "fetch" /\ r.phase = "ok"
  /\ tasks' = getProjectTasks(Envelope(r.body)).list
  /\ loading' = FALSE
  /\ reqs' = reqs \ {r}
  /\ dragging' = DndAfter(FALSE, error, dragging)
  /\ lastTarget' = NoTargets
  /\ last' = [op |-> "fetchTasksOk", req |-> r]
  /\ UNCHANGED <<error, activeTask, mounted, nextReq, server, nextTaskId>>
  /\ UNCHANGED nonBoardVars

\* variant: the catch branch without setTasks([])
fetchTasksFail_KeepStale(r) ==
  /\ r \in reqs /\ r.kind = "fetch" /\ r.phase = "fail"
  /\ error' = ErrFetch
  /\ loading' = FALSE
  /\ reqs' = reqs \ {r}
  /\ dragging' = 0
  /\ lastTarget' = NoTargets
  /\ last' = [op |-> "fetchTasksFail", req |-> r]
  /\ UNCHANGED <<tasks, activeTask, mounted, nextReq, server, nextTaskId>>
  /\ UNCHANGED nonBoardVars

\* fetchTasks after the await, catch branch, finally
fetchTasksFail(r) ==
  /\ r \in reqs /\ r.kind = "fetch" /\ r.phase = "fail"
  /\ error' = ErrFetch
  /\ tasks' = <<>>
  /\ loading' = FALSE
  /\ reqs' = reqs \ {r}
  /\ dragging' = 0
  /\ lastTarget' = NoTargets
  /\ last' = [op |-> "fetchTasksFail", req |-> r]
  /\ UNCHANGED <<activeTask, mounted, nextReq, server, nextTaskId>>
  /\ UNCHANGED nonBoardVars

(* --------------------- KanbanBoard: status change ----------------------- *)
handleDragStart(taskId) ==
  /\ View = "board"
  /\ taskId \in Ids(tasks)
  /\ activeTask' = Find(tasks, taskId)
  /\ dragging' = taskId
  /\ last' = [op |-> "handleDragStart", req |-> NoReq]
  /\ UNCHANGED <<tasks, loading, error, mounted, reqs, nextReq, server,
                 nextTaskId, lastTarget>>
  /\ UNCHANGED nonBoardVars

\* variant: the request is sent without the optimistic setTasks
OptimisticMove_Late(op, taskId, newStatus) ==
  LET task == Find(tasks, taskId)
      r    == Req(nextReq, "update", taskId, newStatus, task.status)
  IN IF task = NoTask \/ task.status = newStatus
       THEN /\ last' = [op |-> op, req |-> NoReq]
            /\ UNCHANGED <<tasks, reqs, nextReq, lastTarget>>
       ELSE /\ nextReq <= MaxReq
            /\ reqs' = reqs \cup {r}
            /\ nextReq' = nextReq + 1
            /\ lastTarget' = [lastTarget EXCEPT ![taskId] = newStatus]
            /\ last' = [op |-> op, req |-> r]
            /\ UNCHANGED tasks

\* variant: the status the task already has is not compared with the target
OptimisticMove_SameStatus(op, taskId, newStatus) ==
  LET task == Find(tasks, taskId)
      r    == Req(nextReq, "update", taskId, newStatus, task.status)
  IN IF task = NoTask
       THEN /\ last' = [op |-> op, req |-> NoReq]
            /\ UNCHANGED <<tasks, reqs, nextReq, lastTarget>>
       ELSE /\ nextReq <= MaxReq
            /\ tasks' = MapStatus(tasks, taskId, newStatus)
            /\ reqs' = reqs \cup {r}
            /\ nextReq' = nextReq + 1
            /\ lastTarget' = [lastTarget EXCEPT ![taskId] = newStatus]
            /\ last' = [op |-> op, req |-> r]

\* the part handleDragEnd and handleTaskMove share: optimistic update and
\* the PATCH { status: newStatus }, with task.status kept for the revert
OptimisticMove(op, taskId, newStatus) ==
  LET task  == Find(tasks, taskId)
      peers == InFlight("update", taskId)
      first == CHOOSE q \in peers : \A p \in peers : q.id <= p.id
      r     == [Req(nextReq, "update", taskId, newStatus, task.status) EXCEPT
                  !.origin = IF peers = {} THEN task.status ELSE first.origin,
                  !.clean  = \A p \in peers : p.clean]
  IN IF task = NoTask \/ task.status = newStatus
       THEN /\ last' = [op |-> op, req |-> NoReq]
            /\ UNCHANGED <<tasks, reqs, nextReq, lastTarget>>
       ELSE /\ nextReq <= MaxReq
            /\ tasks' = MapStatus(tasks, taskId, newStatus)
            /\ reqs' = reqs \cup {r}
            /\ nextReq' = nextReq + 1
            /\ lastTarget' = [lastTarget EXCEPT ![taskId] = newStatus]
            /\ last' = [op |-> op, req |-> r]

handleDragEnd(over) ==
  /\ View = "board"
  /\ dragging # 0
  /\ activeTask' = NoTask
  /\ dragging' = 0
  /\ IF over = NoOver
       THEN /\ last' = [op |-> "handleDragEnd", req |-> NoReq]
            /\ UNCHANGED <<tasks, reqs, nextReq, lastTarget>>
       ELSE OptimisticMove("handleDragEnd", dragging, over)
  /\ UNCHANGED <<loading, error, mounted, server, nextTaskId>>
  /\ UNCHANGED nonBoardVars

handleTaskMove(taskId, newStatus) ==
  /\ View = "board"
  /\ OptimisticMove("handleTaskMove", taskId, newStatus)
  /\ UNCHANGED <<loading, error, activeTask, dragging, mounted, server,
                 nextTaskId>>
  /\ UNCHANGED nonBoardVars

\* variant: the confirmation applies the request's own target again
updateTaskOk_Reapply(r) ==
  /\ r \in reqs /\ r.kind = "update" /\ r.phase = "ok"
  /\ tasks' = MapStatus(tasks, r.taskId, r.newStatus)
  /\ reqs' = {IF q.kind = "update" /\ q.taskId = r.taskId
                THEN [q EXCEPT !.clean = FALSE] ELSE q : q \in reqs \ {r}}
  /\ last' = [op |-> "updateTaskOk", req |-> r]
  /\ UNCHANGED <<loading, error, activeTask, dragging, mounted,
                 nextReq, server, nextTaskId, lastTarget>>
  /\ UNCHANGED nonBoardVars

\* variant: the task returned by the server replaces the one in memory
updateTaskOk_Merge(r) ==
  /\ r \in reqs /\ r.kind = "update" /\ r.phase = "ok"
  /\ tasks' = [i \in DOMAIN tasks |->
                 IF tasks[i].id = r.taskId THEN r.body.list[1] ELSE tasks[i]]
  /\ reqs' = {IF q.kind = "update" /\ q.taskId = r.taskId
                THEN [q EXCEPT !.clean = FALSE] ELSE q : q \in reqs \ {r}}
  /\ last' = [op |-> "updateTaskOk", req |-> r]
  /\ UNCHANGED <<loading, error, activeTask, dragging, mounted,
                 nextReq, server, nextTaskId, lastTarget>>
  /\ UNCHANGED nonBoardVars

\* after await apiClient.updateTask: nothing is done with the result
updateTaskOk(r) ==
  /\ r \in reqs /\ r.kind = "update" /\ r.phase = "ok"
  /\ reqs' = {IF q.kind = "update" /\ q.taskId = r.taskId
                THEN [q EXCEPT !.clean = FALSE] ELSE q : q \in reqs \ {r}}
  /\ last' = [op |-> "updateTaskOk", req |-> r]
  /\ UNCHANGED <<tasks, loading, error, activeTask, dragging, mounted,
                 nextReq, server, nextTaskId, lastTarget>>
  /\ UNCHANGED nonBoardVars

\* variant: the catch branch sets the error but does not revert
updateTaskFail_NoRevert(r) ==
  /\ r \in reqs /\ r.kind = "update" /\ r.phase = "fail"
  /\ error' = ErrUpdate
  /\ reqs' = reqs \ {r}
  /\ dragging' = 0
  /\ lastTarget' = [lastTarget EXCEPT ![r.taskId] = ""]
  /\ last' = [op |-> "updateTaskFail", req |-> r]
  /\ UNCHANGED <<tasks, loading, activeTask, mounted, nextReq, server,
                 nextTaskId>>
  /\ UNCHANGED nonBoardVars

\* catch: revert to task.status of the closure, setError
updateTaskFail(r) ==
  /\ r \in reqs /\ r.kind = "update" /\ r.phase = "fail"
  /\ tasks' = MapStatus(tasks, r.taskId, r.snapshot)
  /\ error' = ErrUpdate
  /\ reqs' = reqs \ {r}
  /\ dragging' = 0
  /\ lastTarget' = [lastTarget EXCEPT ![r.taskId] = ""]
  /\ last' = [op |-> "updateTaskFail", req |-> r]
  /\ UNCHANGED <<loading, activeTask, mounted, nextReq, server, nextTaskId>>
  /\ UNCHANGED nonBoardVars

(* ------------------------ KanbanBoard: delete --------------------------- *)
\* variant: the task is filtered out before deleteTask is awaited
handleTaskDelete_Optimistic(taskId, confirmed) ==
  /\ View = "board"
  /\ taskId \in Ids(tasks)
  /\ IF ~confirmed
       THEN /\ last' = [op |-> "handleTaskDelete", req |-> NoReq]
            /\ UNCHANGED <<tasks, reqs, nextReq>>
       ELSE /\ nextReq <= MaxReq
            /\ tasks' = FilterOut(tasks, taskId)
            /\ reqs' = reqs \cup {Req(nextReq, "delete", taskId, "", "")}
            /\ nextReq' = nextReq + 1
            /\ last' = [op |-> "handleTaskDelete",
                        req |-> Req(nextReq, "delete", taskId, "", "")]
  /\ UNCHANGED <<loading, error, activeTask, dragging, mounted, server,
                 nextTaskId, lastTarget>>
  /\ UNCHANGED nonBoardVars

\* window.confirm, then await apiClient.deleteTask(taskId)
handleTaskDelete(taskId, confirmed) ==
  /\ View = "board"
  /\ taskId \in Ids(tasks)
  /\ IF ~confirmed
       THEN /\ last' = [op |-> "handleTaskDelete", req |-> NoReq]
            /\ UNCHANGED <<reqs, nextReq>>
       ELSE /\ nextReq <= MaxReq
            /\ reqs' = reqs \cup {Req(nextReq, "delete", taskId, "", "")}
            /\ nextReq' = nextReq + 1
            /\ last' = [op |-> "handleTaskDelete",
                        req |-> Req(nextReq, "delete", taskId, "", "")]
  /\ UNCHANGED <<tasks, loading, error, activeTask, dragging, mounted, server,
                 nextTaskId, lastTarget>>
  /\ UNCHANGED nonBoardVars

deleteTaskOk(r) ==
  /\ r \in reqs /\ r.kind = "delete" /\ r.phase = "ok"
  /\ tasks' = FilterOut(tasks, r.taskId)
  /\ reqs' = reqs \ {r}
  /\ lastTarget' = [lastTarget EXCEPT ![r.taskId] = ""]
  /\ last' = [op |-> "deleteTaskOk", req |-> r]
  /\ UNCHANGED <<loading, error, activeTask, dragging, mounted, nextReq,
                 server, nextTaskId>>
  /\ UNCHANGED nonBoardVars

deleteTaskFail(r) ==
  /\ r \in reqs /\ r.kind = "delete" /\ r.phase = "fail"
  /\ error' = ErrDelete
  /\ reqs' = reqs \ {r}
  /\ dragging' = 0
  /\ last' = [op |-> "deleteTaskFail", req |-> r]
  /\ UNCHANGED <<tasks, loading, activeTask, mounted, nextReq, server,
                 nextTaskId, lastTarget>>
  /\ UNCHANGED nonBoardVars

(* ------------------------ CreateTaskModal ------------------------------- *)
\* formData.title as a sequence of characters
Titles == {<< >>, <<" ">>, <<" ", "a">>}
SomeTitle == <<" ", "a">>

\* String.prototype.trim: white space removed at both ends
RECURSIVE Trim(_)
Trim(t) ==
  IF t = << >> THEN t
  ELSE IF Head(t) = " " THEN Trim(Tail(t))
  ELSE IF t[Len(t)] = " " THEN Trim(SubSeq(t, 1, Len(t) - 1))
  ELSE t

\* taskData of handleSubmit: the title goes out as typed
CreateReq(id, title) == [title |-> title] @@ Req(id, "create", 0, "", "")

\* variant: the new task is put into the collection before the server answers
handleSubmit_Optimistic(title) ==
  /\ View = "board"
  /\ IF Trim(title) = << >>
       THEN /\ last' = [op |-> "handleSubmit", req |-> NoReq]
            /\ UNCHANGED <<tasks, reqs, nextReq>>
       ELSE /\ nextReq + 1 <= MaxReq
            /\ nextTaskId + Cardinality({q \in reqs : q.kind = "create"})
                 <= NumTasks + MaxCreate
            /\ tasks' = Append(tasks, [id |-> nextTaskId, status |-> "TO_DO",
                                       updated_at |-> 0])
            /\ reqs' = reqs \cup {CreateReq(nextReq, title)}
            /\ nextReq' = nextReq + 1
            /\ last' = [op |-> "handleSubmit", req |-> CreateReq(nextReq, title)]
  /\ UNCHANGED <<loading, error, activeTask, dragging, mounted, server,
                 nextTaskId, lastTarget>>
  /\ UNCHANGED nonBoardVars

\* handleSubmit: a blank title sets the modal's own error and returns; with a
\* title createProjectTask is awaited and the collection is not touched.  One
\* request number is kept for the fetch that follows.
handleSubmit(title) ==
  /\ View = "board"
  /\ IF Trim(title) = << >>
       THEN /\ last' = [op |-> "handleSubmit", req |-> NoReq]
            /\ UNCHANGED <<reqs, nextReq>>
       ELSE /\ nextReq + 1 <= MaxReq
            /\ nextTaskId + Cardinality({q \in reqs : q.kind = "create"})
                 <= NumTasks + MaxCreate
            /\ reqs' = reqs \cup {CreateReq(nextReq, title)}
            /\ nextReq' = nextReq + 1
            /\ last' = [op |-> "handleSubmit", req |-> CreateReq(nextReq, title)]
  /\ UNCHANGED <<tasks, loading, error, activeTask, dragging, mounted, server,
                 nextTaskId, lastTarget>>
  /\ UNCHANGED nonBoardVars

\* onTaskCreated() = handleTaskCreated = fetchTasks().  taskId of this fetch
\* is history only: the id of the task whose creation led to the fetch.
handleTaskCreated(r) ==
  /\ r \in reqs /\ r.kind = "create" /\ r.phase = "ok"
  /\ nextReq <= MaxReq
  /\ loading' = TRUE
  /\ error' = ""
  /\ reqs' = (reqs \ {r}) \cup {Req(nextReq, "fetch", r.body.list[1].id, "", "")}
  /\ nextReq' = nextReq + 1
  /\ dragging' = 0
  /\ last' = [op |-> "handleTaskCreated", req |-> r]
  /\ UNCHANGED <<tasks, activeTask, mounted, server, nextTaskId, lastTarget>>
  /\ UNCHANGED nonBoardVars

\* catch of handleSubmit: only the modal's own error is set
createTaskFail(r) ==
  /\ r \in reqs /\ r.kind = "create" /\ r.phase = "fail"
  /\ reqs' = reqs \ {r}
  /\ last' = [op |-> "createTaskFail", req |-> r]
  /\ UNCHANGED <<tasks, loading, error, activeTask, dragging, mounted,
                 nextReq, server, nextTaskId, lastTarget>>
  /\ UNCHANGED nonBoardVars

(* ------------------------------ backend --------------------------------- *)
Respond(r, phase, body) ==
  reqs' = (reqs \ {r}) \cup {[r EXCEPT !.phase = phase, !.body = body]}

\* any request can fail (4xx, 5xx, no response) without being applied
ServerFail(r) ==
  /\ r \in reqs /\ r.phase = "sent"
  /\ Respond(r, "fail", NoBody)
  /\ UNCHANGED <<tasks, loading, error, activeTask, dragging, mounted,
                 nextReq, server, nextTaskId, lastTarget, last>>
  /\ UNCHANGED nonBoardVars

\* GET /projects/{id}/tasks: the list as stored, in one of the list shapes
ServerList(r, shape) ==
  /\ r \in reqs /\ r.phase = "sent" /\ r.kind = "fetch"
  /\ Respond(r, "ok", [shape |-> shape, list |-> server])
  /\ UNCHANGED <<tasks, loading, error, activeTask, dragging, mounted,
                 nextReq, server, nextTaskId, lastTarget, last>>
  /\ UNCHANGED nonBoardVars

\* PATCH /tasks/{id}: partial update of status; only the three values are stored
ServerPatch(r) ==
  /\ r \in reqs /\ r.phase = "sent" /\ r.kind = "update"
  /\ r.taskId \in Ids(server)
  /\ r.newStatus \in Statuses
  /\ LET old == Find(server, r.taskId)
         new == [old EXCEPT !.status = r.newStatus,
                            !.updated_at = old.updated_at + 1]
     IN /\ server' = [i \in DOMAIN server |->
                        IF server[i].id = r.taskId THEN new ELSE server[i]]
        /\ Respond(r, "ok", [shape |-> "task", list |-> <<new>>])
  /\ UNCHANGED <<tasks, loading, error, activeTask, dragging, mounted,
                 nextReq, nextTaskId, lastTarget, last>>
  /\ UNCHANGED nonBoardVars

\* DELETE /tasks/{id}
ServerDelete(r) ==
  /\ r \in reqs /\ r.phase = "sent" /\ r.kind = "delete"
  /\ r.taskId \in Ids(server)
  /\ server' = FilterOut(server, r.taskId)
  /\ Respond(r, "ok", NoBody)
  /\ UNCHANGED <<tasks, loading, error, activeTask, dragging, mounted,
                 nextReq, nextTaskId, lastTarget, last>>
  /\ UNCHANGED nonBoardVars

\* POST /projects/{id}/tasks
ServerCreate(r) ==
  /\ r \in reqs /\ r.phase = "sent" /\ r.kind = "create"
  /\ LET new == [id |-> nextTaskId, status |-> "TO_DO", updated_at |-> 0]
     IN /\ server' = Append(server, new)
        /\ Respond(r, "ok", [shape |-> "task", list |-> <<new>>])
  /\ nextTaskId' = nextTaskId + 1
  /\ UNCHANGED <<tasks, loading, error, activeTask, dragging, mounted,
                 nextReq, lastTarget, last>>
  /\ UNCHANGED nonBoardVars

(* ------------------------------- Next ----------------------------------- *)
Next ==
  \/ useEffect
  \/ Retry
  \/ \E r \in reqs : fetchTasksOk(r)
  \/ \E r \in reqs : fetchTasksFail(r)
  \/ \E id \in TaskIds : handleDragStart(id)
  \/ \E over \in DropIds \cup {NoOver} : handleDragEnd(over)
  \/ \E id \in TaskIds, s \in Statuses : handleTaskMove(id, s)
  \/ \E r \in reqs : updateTaskOk(r)
  \/ \E r \in reqs : updateTaskFail(r)
  \/ \E id \in TaskIds, c \in BOOLEAN : handleTaskDelete(id, c)
  \/ \E r \in reqs : deleteTaskOk(r)
  \/ \E r \in reqs : deleteTaskFail(r)
  \/ handleSubmit(SomeTitle)
  \/ \E r \in reqs : handleTaskCreated(r)
  \/ \E r \in reqs : createTaskFail(r)
  \/ \E r \in reqs : ServerFail(r)
  \/ \E r \in reqs, shape \in Shapes : ServerList(r, shape)
  \/ \E r \in reqs : ServerPatch(r)
  \/ \E r \in reqs : ServerDelete(r)
  \/ \E r \in reqs : ServerCreate(r)

Spec == Init /\ [][Next]_vars

TypeOK ==
  /\ loading \in BOOLEAN
  /\ error \in {"", ErrFetch, ErrUpdate, ErrDelete}
  /\ nextReq \in 1..(MaxReq + 1)
  /\ \A i \in DOMAIN tasks : tasks[i].id \in TaskIds

(* ------------------- the board with several tasks --------------------- *)
\* The board once it has been loaded (request 1), a task has been created
\* and the collection has been fetched again; the tasks differ in
\* updated_at.  The requests of the creation are not counted.
MoveInit ==
  /\ server = [i \in 1..(NumTasks + 1) |->
                 [id |-> i, status |-> "TO_DO", updated_at |-> i]]
  /\ tasks = server
  /\ loading = FALSE
  /\ error = ""
  /\ activeTask = NoTask
  /\ dragging = 0
  /\ mounted = TRUE
  /\ reqs = {}
  /\ nextReq = 2
  /\ nextTaskId = NumTasks + 2
  /\ lastTarget = NoTargets
  /\ last = [op |-> "init", req |-> NoReq]
  /\ PageInit
  /\ AuthInit
  /\ account = "member"
  /\ NormInit
  /\ storage = [access_token |-> "A0", refresh_token |-> "R0"]
  /\ location = "/"
  /\ calls = [c \in 1..NumCalls |-> NoCall]

\* the status changes and the handling of their responses
MoveNext ==
  \/ \E id \in TaskIds : handleDragStart(id)
  \/ \E over \in DropIds \cup {NoOver} : handleDragEnd(over)
  \/ \E id \in 1..(NumTasks + 2), s \in Statuses : handleTaskMove(id, s)
  \/ \E r \in reqs : updateTaskOk(r)
  \/ \E r \in reqs : updateTaskFail(r)
  \/ \E r \in reqs : ServerFail(r)
  \/ \E r \in reqs : ServerPatch(r)

MoveSpec == MoveInit /\ [][MoveNext]_vars

(* ---------------------- creation on a loaded board --------------------- *)
\* the board after its first fetch: NumTasks tasks, no request in flight
CreateInit ==
  /\ server = [i \in 1..NumTasks |->
                 [id |-> i, status |-> "TO_DO", updated_at |-> i]]
  /\ tasks = server
  /\ loading = FALSE
  /\ error = ""
  /\ activeTask = NoTask
  /\ dragging = 0
  /\ mounted = TRUE
  /\ reqs = {}
  /\ nextReq = 1
  /\ nextTaskId = NumTasks + 1
  /\ lastTarget = NoTargets
  /\ last = [op |-> "init", req |-> NoReq]
  /\ PageInit
  /\ AuthInit
  /\ account = "member"
  /\ NormInit
  /\ storage = [access_token |-> "A0", refresh_token |-> "R0"]
  /\ location = "/"
  /\ calls = [c \in 1..NumCalls |-> NoCall]

\* the modal, the fetch that follows a creation, and status changes as the
\* other operations in flight
CreateNext ==
  \/ \E title \in Titles : handleSubmit(title)
  \/ \E r \in reqs : handleTaskCreated(r)
  \/ \E r \in reqs : createTaskFail(r)
  \/ Retry
  \/ \E r \in reqs : fetchTasksOk(r)
  \/ \E r \in reqs : fetchTasksFail(r)
  \/ \E id \in TaskIds, s \in {"IN_PROGRESS", "DONE"} : handleTaskMove(id, s)
  \/ \E r \in reqs : updateTaskOk(r)
  \/ \E r \in reqs : updateTaskFail(r)
  \/ \E r \in reqs : ServerFail(r)
  \/ \E r \in reqs, shape \in {"results", "other"} : ServerList(r, shape)
  \/ \E r \in reqs : ServerPatch(r)
  \/ \E r \in reqs : ServerCreate(r)

CreateSpec == CreateInit /\ [][CreateNext]_vars

\* a loaded board with one task and no request in flight
ErrorInit ==
  /\ server = <<[id |-> 1, status |-> "TO_DO", updated_at |-> 1]>>
  /\ tasks = server
  /\ loading = FALSE
  /\ error = ""
  /\ activeTask = NoTask
  /\ dragging = 0
  /\ mounted = TRUE
  /\ reqs = {}
  /\ nextReq = 1
  /\ nextTaskId = NumTasks + 1
  /\ lastTarget = NoTargets
  /\ last = [op |-> "init", req |-> NoReq]
  /\ PageInit
  /\ AuthInit
  /\ account = "member"
  /\ NormInit
  /\ storage = [access_token |-> "A0", refresh_token |-> "R0"]
  /\ location = "/"
  /\ calls = [c \in 1..NumCalls |-> NoCall]

\* the board without the modal: drags, moves, deletes, the Reessayer button
\* and the responses
ErrorNext ==
  \/ Retry
  \/ \E r \in reqs : fetchTasksOk(r)
  \/ \E r \in reqs : fetchTasksFail(r)
  \/ handleDragStart(1)
  \/ \E over \in Statuses \cup {NoOver} : handleDragEnd(over)
  \/ \E s \in Statuses : handleTaskMove(1, s)
  \/ \E r \in reqs : updateTaskOk(r)
  \/ \E r \in reqs : updateTaskFail(r)
  \/ \E c \in BOOLEAN : handleTaskDelete(1, c)
  \/ \E r \in reqs : deleteTaskOk(r)
  \/ \E r \in reqs : deleteTaskFail(r)
  \/ \E r \in reqs : ServerFail(r)
  \/ \E r \in reqs : ServerList(r, "array")
  \/ \E r \in reqs : ServerPatch(r)
  \/ \E r \in reqs : ServerDelete(r)

ErrorSpec == ErrorInit /\ [][ErrorNext]_vars

(* ====================== services/api.ts: ApiClient ===================== *)
\* The call of one ApiClient method: pc is "idle" before it is made, "sent"
\* while this.client awaits the response, "refreshing" while the response
\* interceptor awaits axios.post(/auth/refresh/), "done" when the promise is
\* settled.  retry is originalRequest._retry, auth the Authorization header,
\* status the status of the last response (0: no response), sends and
\* refreshes count the requests and the refresh calls made for the call.
Urls        == {"/auth/login/", "/tasks/"}
ErrStatuses == {401, 403, 500, 0}
NewAccess   == "A1"          \* response.data.access of a refresh

\* the request interceptor: Authorization from localStorage, if present
RequestInterceptor(token, auth) ==
  IF token # "" THEN "Bearer " \o token ELSE auth

ApiInit ==
  /\ BoardInit
  /\ PageInit
  /\ AuthInit
  /\ account = "member"
  /\ NormInit
  /\ storage \in [access_token : {"", "A0"}, refresh_token : {"", "R0"}]
  /\ location = "/"
  /\ calls = [c \in 1..NumCalls |-> NoCall]

\* this.client.get/post/patch/delete(url)
ApiRequest(c, url) ==
  /\ calls[c].pc = "idle"
  /\ calls' = [calls EXCEPT ![c] =
       [@ EXCEPT !.pc = "sent", !.url = url, !.sends = 1,
                 !.auth = RequestInterceptor(storage.access_token, "")]]
  /\ UNCHANGED <<storage, location>>
  /\ UNCHANGED nonApiVars

\* response interceptor, first function: the response is returned
ApiResponse(c) ==
  /\ calls[c].pc = "sent"
  /\ calls' = [calls EXCEPT ![c] =
       [@ EXCEPT !.pc = "done", !.status = 200, !.result = "resolved"]]
  /\ UNCHANGED <<storage, location>>
  /\ UNCHANGED nonApiVars

\* variant: the interceptor does not look at originalRequest._retry
ApiError_NoRetryFlag(c, status) ==
  /\ calls[c].pc = "sent"
  /\ IF status = 401
       THEN IF storage.refresh_token # ""
              THEN calls' = [calls EXCEPT ![c] =
                     [@ EXCEPT !.pc = "refreshing", !.status = status,
                               !.retry = TRUE, !.refreshes = @ + 1]]
              ELSE calls' = [calls EXCEPT ![c] =
                     [@ EXCEPT !.pc = "done", !.status = status,
                               !.retry = TRUE, !.result = "rejected"]]
       ELSE calls' = [calls EXCEPT ![c] =
              [@ EXCEPT !.pc = "done", !.status = status,
                        !.result = "rejected"]]
  /\ UNCHANGED <<storage, location>>
  /\ UNCHANGED nonApiVars

\* variant: a 500 is treated like an expired credential
ApiError_RetryOn5xx(c, status) ==
  /\ calls[c].pc = "sent"
  /\ IF status \in {401, 500} /\ ~calls[c].retry
       THEN IF storage.refresh_token # ""
              THEN calls' = [calls EXCEPT ![c] =
                     [@ EXCEPT !.pc = "refreshing", !.status = status,
                               !.retry = TRUE, !.refreshes = @ + 1]]
              ELSE calls' = [calls EXCEPT ![c] =
                     [@ EXCEPT !.pc = "done", !.status = status,
                               !.retry = TRUE, !.result = "rejected"]]
       ELSE calls' = [calls EXCEPT ![c] =
              [@ EXCEPT !.pc = "done", !.status = status,
                        !.result = "rejected"]]
  /\ UNCHANGED <<storage, location>>
  /\ UNCHANGED nonApiVars

\* response interceptor, second function, up to its await or its reject
ApiError(c, status) ==
  /\ calls[c].pc = "sent"
  /\ IF status = 401 /\ ~calls[c].retry
       THEN IF storage.refresh_token # ""
              THEN calls' = [calls EXCEPT ![c] =
                     [@ EXCEPT !.pc = "refreshing", !.status = status,
                               !.retry = TRUE, !.refreshes = @ + 1]]
              ELSE calls' = [calls EXCEPT ![c] =
                     [@ EXCEPT !.pc = "done", !.status = status,
                               !.retry = TRUE, !.result = "rejected"]]
       ELSE calls' = [calls EXCEPT ![c] =
              [@ EXCEPT !.pc = "done", !.status = status,
                        !.result = "rejected"]]
  /\ UNCHANGED <<storage, location>>
  /\ UNCHANGED nonApiVars

\* variant: the new access token is put in the header but not stored, so
\* the request interceptor overwrites the header with the stored one
ApiRefreshOk_NoStore(c) ==
  /\ calls[c].pc = "refreshing"
  /\ calls[c].sends < MaxSends
  /\ calls' = [calls EXCEPT ![c] =
       [@ EXCEPT !.pc = "sent", !.sends = @ + 1,
                 !.auth = RequestInterceptor(storage.access_token,
                                             "Bearer " \o NewAccess)]]
  /\ UNCHANGED <<storage, location>>
  /\ UNCHANGED nonApiVars

\* the refresh succeeded: the access token is stored and the original
\* request is sent again through this.client
ApiRefreshOk(c) ==
  /\ calls[c].pc = "refreshing"
  /\ calls[c].sends < MaxSends
  /\ storage' = [storage EXCEPT !.access_token = NewAccess]
  /\ calls' = [calls EXCEPT ![c] =
       [@ EXCEPT !.pc = "sent", !.sends = @ + 1,
                 !.auth = RequestInterceptor(NewAccess, "Bearer " \o NewAccess)]]
  /\ UNCHANGED location
  /\ UNCHANGED nonApiVars

\* variant: only the access token is removed
ApiRefreshFail_KeepRefresh(c) ==
  /\ calls[c].pc = "refreshing"
  /\ storage' = [storage EXCEPT !.access_token = ""]
  /\ location' = "/login"
  /\ calls' = [calls EXCEPT ![c] = [@ EXCEPT !.pc = "done", !.result = "rejected"]]
  /\ UNCHANGED nonApiVars

\* catch (refreshError): both credentials are removed, /login, reject
ApiRefreshFail(c) ==
  /\ calls[c].pc = "refreshing"
  /\ storage' = [access_token |-> "", refresh_token |-> ""]
  /\ location' = "/login"
  /\ calls' = [calls EXCEPT ![c] = [@ EXCEPT !.pc = "done", !.result = "rejected"]]
  /\ UNCHANGED nonApiVars

ApiNext ==
  \/ \E c \in 1..NumCalls, url \in Urls : ApiRequest(c, url)
  \/ \E c \in 1..NumCalls : ApiResponse(c)
  \/ \E c \in 1..NumCalls, status \in ErrStatuses : ApiError(c, status)
  \/ \E c \in 1..NumCalls : ApiRefreshOk(c)
  \/ \E c \in 1..NumCalls : ApiRefreshFail(c)

ApiSpec == ApiInit /\ [][ApiNext]_vars

(* ============ delete handlers: board, projects list, admin ============= *)
\* One page is open in a run; the handlers of a page run only while its route
\* is the current one.  The requests of all pages go through the one
\* ApiClient and are kept in reqs; last.req = NoReq after a delete handler
\* says that window.confirm returned false.
KanbanPath   == "/projects/1/kanban"
ProjectsPath == "/projects"
AdminPath    == "/admin"

\* the pages as they are once their data is loaded
DeleteInit ==
  /\ BoardInit
  /\ AuthInit
  /\ account = "member"
  /\ NormInit
  /\ storage = [access_token |-> "A0", refresh_token |-> "R0"]
  /\ calls = [c \in 1..NumCalls |-> NoCall]
  /\ location \in {KanbanPath, ProjectsPath, AdminPath}
  /\ serverProjects = [i \in 1..NumProjects |-> [id |-> i]]
  /\ projects = serverProjects
  /\ currentProject \in 0..NumProjects
  /\ projectsLoading = FALSE
  /\ adminProjects = IF location = AdminPath THEN serverProjects ELSE <<>>
  /\ allTasks = IF location = AdminPath THEN server ELSE <<>>
  /\ stats = IF location = AdminPath
               THEN [totalProjects |-> NumProjects, totalTasks |-> NumTasks]
               ELSE NoStats

\* variant: the request is sent before the answer of the dialog is looked at
handleProjectDelete_NoConfirm(projectId, confirmed) ==
  /\ location = ProjectsPath
  /\ ~projectsLoading
  /\ projectId \in Ids(projects)
  /\ nextReq <= MaxReq
  /\ projectsLoading' = TRUE
  /\ reqs' = reqs \cup {Req(nextReq, "deleteProject", projectId, "", "")}
  /\ nextReq' = nextReq + 1
  /\ last' = [op |-> "handleProjectDelete",
              req |-> IF confirmed
                        THEN Req(nextReq, "deleteProject", projectId, "", "")
                        ELSE NoReq]
  /\ UNCHANGED <<tasks, loading, error, activeTask, dragging, mounted, server,
                 nextTaskId, lastTarget>>
  /\ UNCHANGED <<projects, currentProject, adminProjects, allTasks, stats,
                 serverProjects>>
  /\ UNCHANGED <<apiVars, authVars, normVars>>

\* ProjectsList.handleProjectDelete: window.confirm, then
\* ProjectContext.deleteProject up to await apiClient.deleteProject(id)
handleProjectDelete(projectId, confirmed) ==
  /\ location = ProjectsPath
  /\ ~projectsLoading
  /\ projectId \in Ids(projects)
  /\ IF ~confirmed
       THEN /\ last' = [op |-> "handleProjectDelete", req |-> NoReq]
            /\ UNCHANGED <<reqs, nextReq, projectsLoading>>
       ELSE /\ nextReq <= MaxReq
            /\ projectsLoading' = TRUE
            /\ reqs' = reqs \cup
                         {Req(nextReq, "deleteProject", projectId, "", "")}
            /\ nextReq' = nextReq + 1
            /\ last' = [op |-> "handleProjectDelete",
                        req |-> Req(nextReq, "deleteProject", projectId, "", "")]
  /\ UNCHANGED <<tasks, loading, error, activeTask, dragging, mounted, server,
                 nextTaskId, lastTarget>>
  /\ UNCHANGED <<projects, currentProject, adminProjects, allTasks, stats,
                 serverProjects>>
  /\ UNCHANGED <<apiVars, authVars, normVars>>

\* deleteProject after the await: the project is filtered out, the current
\* project is deselected if it is the deleted one; finally setIsLoading(false)
deleteProjectOk(r) ==
  /\ r \in reqs /\ r.kind = "deleteProject" /\ r.phase = "ok"
  /\ projects' = FilterOut(projects, r.taskId)
  /\ currentProject' = IF currentProject = r.taskId THEN 0 ELSE currentProject
  /\ projectsLoading' = FALSE
  /\ reqs' = reqs \ {r}
  /\ last' = [op |-> "deleteProjectOk", req |-> r]
  /\ UNCHANGED <<tasks, loading, error, activeTask, dragging, mounted, nextReq,
                 server, nextTaskId, lastTarget>>
  /\ UNCHANGED <<adminProjects, allTasks, stats, serverProjects>>
  /\ UNCHANGED <<apiVars, authVars, normVars>>

\* deleteProject rethrows, handleProjectDelete alerts; finally
\* setIsLoading(false)
deleteProjectFail(r) ==
  /\ r \in reqs /\ r.kind = "deleteProject" /\ r.phase = "fail"
  /\ projectsLoading' = FALSE
  /\ reqs' = reqs \ {r}
  /\ last' = [op |-> "deleteProjectFail", req |-> r]
  /\ UNCHANGED <<tasks, loading, error, activeTask, dragging, mounted, nextReq,
                 server, nextTaskId, lastTarget>>
  /\ UNCHANGED <<projects, currentProject, adminProjects, allTasks, stats,
                 serverProjects>>
  /\ UNCHANGED <<apiVars, authVars, normVars>>

\* AdminPage.handleDeleteProject up to await apiClient.deleteProjectAdmin
handleDeleteProject(projectId, confirmed) ==
  /\ location = AdminPath
  /\ projectId \in Ids(adminProjects)
  /\ IF ~confirmed
       THEN /\ last' = [op |-> "handleDeleteProject", req |-> NoReq]
            /\ UNCHANGED <<reqs, nextReq>>
       ELSE /\ nextReq <= MaxReq
            /\ reqs' = reqs \cup
                         {Req(nextReq, "deleteProjectAdmin", projectId, "", "")}
            /\ nextReq' = nextReq + 1
            /\ last' = [op |-> "handleDeleteProject",
                        req |-> Req(nextReq, "deleteProjectAdmin", projectId,
                                    "", "")]
  /\ UNCHANGED <<tasks, loading, error, activeTask, dragging, mounted, server,
                 nextTaskId, lastTarget>>
  /\ UNCHANGED pageVars
  /\ UNCHANGED <<apiVars, authVars, normVars>>

\* AdminPage.handleDeleteTask up to await apiClient.deleteTaskAdmin
handleDeleteTask(taskId, confirmed) ==
  /\ location = AdminPath
  /\ taskId \in Ids(allTasks)
  /\ IF ~confirmed
       THEN /\ last' = [op |-> "handleDeleteTask", req |-> NoReq]
            /\ UNCHANGED <<reqs, nextReq>>
       ELSE /\ nextReq <= MaxReq
            /\ reqs' = reqs \cup
                         {Req(nextReq, "deleteTaskAdmin", taskId, "", "")}
            /\ nextReq' = nextReq + 1
            /\ last' = [op |-> "handleDeleteTask",
                        req |-> Req(nextReq, "deleteTaskAdmin", taskId, "", "")]
  /\ UNCHANGED <<tasks, loading, error, activeTask, dragging, mounted, server,
                 nextTaskId, lastTarget>>
  /\ UNCHANGED pageVars
  /\ UNCHANGED <<apiVars, authVars, normVars>>

\* after the await of either admin delete: the row is filtered out and the
\* total of the statistics is decremented
adminDeleteOk(r) ==
  /\ r \in reqs /\ r.phase = "ok"
  /\ r.kind \in {"deleteProjectAdmin", "deleteTaskAdmin"}
  /\ IF r.kind = "deleteProjectAdmin"
       THEN /\ adminProjects' = FilterOut(adminProjects, r.taskId)
            /\ stats' = [stats EXCEPT !.totalProjects = @ - 1]
            /\ UNCHANGED allTasks
       ELSE /\ allTasks' = FilterOut(allTasks, r.taskId)
            /\ stats' = [stats EXCEPT !.totalTasks = @ - 1]
            /\ UNCHANGED adminProjects
  /\ reqs' = reqs \ {r}
  /\ last' = [op |-> "adminDeleteOk", req |-> r]
  /\ UNCHANGED <<tasks, loading, error, activeTask, dragging, mounted, nextReq,
                 server, nextTaskId, lastTarget>>
  /\ UNCHANGED <<projects, currentProject, projectsLoading, serverProjects>>
  /\ UNCHANGED <<apiVars, authVars, normVars>>

\* the catch of either admin delete: an alert, no state is set
adminDeleteFail(r) ==
  /\ r \in reqs /\ r.phase = "fail"
  /\ r.kind \in {"deleteProjectAdmin", "deleteTaskAdmin"}
  /\ reqs' = reqs \ {r}
  /\ last' = [op |-> "adminDeleteFail", req |-> r]
  /\ UNCHANGED <<tasks, loading, error, activeTask, dragging, mounted, nextReq,
                 server, nextTaskId, lastTarget>>
  /\ UNCHANGED pageVars
  /\ UNCHANGED <<apiVars, authVars, normVars>>

\* DELETE /projects/{id} and DELETE /admin/projects/{id}
ServerDeleteProject(r) ==
  /\ r \in reqs /\ r.phase = "sent"
  /\ r.kind \in {"deleteProject", "deleteProjectAdmin"}
  /\ r.taskId \in Ids(serverProjects)
  /\ serverProjects' = FilterOut(serverProjects, r.taskId)
  /\ Respond(r, "ok", NoBody)
  /\ UNCHANGED <<tasks, loading, error, activeTask, dragging, mounted, nextReq,
                 server, nextTaskId, lastTarget, last>>
  /\ UNCHANGED <<projects, currentProject, projectsLoading, adminProjects,
                 allTasks, stats>>
  /\ UNCHANGED <<apiVars, authVars, normVars>>

\* DELETE /admin/tasks/{id}
ServerDeleteTaskAdmin(r) ==
  /\ r \in reqs /\ r.phase = "sent" /\ r.kind = "deleteTaskAdmin"
  /\ r.taskId \in Ids(server)
  /\ server' = FilterOut(server, r.taskId)
  /\ Respond(r, "ok", NoBody)
  /\ UNCHANGED <<tasks, loading, error, activeTask, dragging, mounted, nextReq,
                 nextTaskId, lastTarget, last>>
  /\ UNCHANGED pageVars
  /\ UNCHANGED <<apiVars, authVars, normVars>>

DeleteNext ==
  \/ location = KanbanPath /\ useEffect
  \/ location = KanbanPath /\ Retry
  \/ \E r \in reqs : fetchTasksOk(r)
  \/ \E r \in reqs : fetchTasksFail(r)
  \/ \E id \in TaskIds, c \in BOOLEAN :
       location = KanbanPath /\ handleTaskDelete(id, c)
  \/ \E r \in reqs : deleteTaskOk(r)
  \/ \E r \in reqs : deleteTaskFail(r)
  \/ \E id \in 1..NumProjects, c \in BOOLEAN : handleProjectDelete(id, c)
  \/ \E r \in reqs : deleteProjectOk(r)
  \/ \E r \in reqs : deleteProjectFail(r)
  \/ \E id \in 1..NumProjects, c \in BOOLEAN : handleDeleteProject(id, c)
  \/ \E id \in TaskIds, c \in BOOLEAN : handleDeleteTask(id, c)
  \/ \E r \in reqs : adminDeleteOk(r)
  \/ \E r \in reqs : adminDeleteFail(r)
  \/ \E r \in reqs : ServerFail(r)
  \/ \E r \in reqs, shape \in Shapes : ServerList(r, shape)
  \/ \E r \in reqs : ServerDelete(r)
  \/ \E r \in reqs : ServerDeleteProject(r)
  \/ \E r \in reqs : ServerDeleteTaskAdmin(r)

DeleteSpec == DeleteInit /\ [][DeleteNext]_vars

DeleteKinds    == {"delete", "deleteProject", "deleteProjectAdmin",
                   "deleteTaskAdmin"}
DeleteHandlers == {"handleTaskDelete", "handleProjectDelete",
                   "handleDeleteProject", "handleDeleteTask"}

\* C14: on the board, in the projects list and on the admin page a delete
\* request is issued only by a delete handler whose confirmation dialog was
\* accepted, and a handler whose dialog was declined issues no request and
\* leaves the state of every component, the storage and the backend as
\* they are.
C14_ConfirmBeforeDelete ==
  [][/\ \A r \in reqs' :
          (r.kind \in DeleteKinds /\ \A q \in reqs : q.id # r.id)
            => last'.op \in DeleteHandlers /\ last'.req = r
     /\ (last' # last /\ last'.op \in DeleteHandlers /\ last'.req = NoReq)
          => UNCHANGED <<tasks, loading, error, activeTask, dragging, mounted,
                         reqs, nextReq, server, nextTaskId, lastTarget,
                         apiVars, pageVars, authVars>>]_vars

\* on the admin page a dialog was declined while an accepted delete of a
\* project is in flight
C14_Witness ==
  /\ last.op = "handleDeleteTask" /\ last.req = NoReq
  /\ \E r \in reqs : r.kind = "deleteProjectAdmin" /\ r.phase = "sent"
  /\ allTasks # <<>>

(* ============ AuthContext, login pages, ProtectedAdminRoute =========== *)
\* The session of one browser tab.  location is the route the Router shows;
\* the requests of AuthProvider and of the login pages are kept in reqs.
\* The handlers of the user run once the mount effect of AuthProvider has
\* run.  ProtectedRoute and Dashboard are not part of the sources: of the
\* dashboard route only the Header is modelled.
LoginPath      == "/login"
AdminLoginPath == "/admin-login"
DashboardPath  == "/dashboard"
ErrAdminLogin  == "Identifiants incorrects"
Tokens         == [access_token |-> "A0", refresh_token |-> "R0"]
NoTokens       == [access_token |-> "", refresh_token |-> ""]

boardData == <<tasks, loading, error, activeTask, dragging, mounted, server,
               nextTaskId, lastTarget>>

\* the user object GET /auth/me returns for an account
UserOf(a) == [id |-> 1, is_staff |-> a = "staff",
              is_superuser |-> a = "superuser"]

\* what ProtectedAdminRoute returns
ProtectedAdminRoute_NoFlagCheck(auth, u) ==
  IF ~auth THEN "redirect" ELSE "children"

ProtectedAdminRoute(auth, u) ==
  IF ~auth THEN "redirect"
  ELSE IF ~u.is_staff /\ ~u.is_superuser THEN "denied"
  ELSE "children"

\* what the Router shows for the current route
Screen ==
  CASE location = AdminPath      -> ProtectedAdminRoute(isAuthenticated, user)
    [] location = AdminLoginPath -> "AdminLoginPage"
    [] location = LoginPath      -> "LoginPage"
    [] OTHER                     -> "Header"

AuthSpecInit ==
  /\ BoardInit
  /\ PageInit
  /\ NormInit
  /\ AuthInit
  /\ account \in Accounts
  /\ storage \in {NoTokens, Tokens}
  /\ location \in {LoginPath, AdminLoginPath, AdminPath}
  /\ calls = [c \in 1..NumCalls |-> NoCall]

\* the mount effect: checkAuthStatus up to await apiClient.getMe(), or to
\* its end when no access token is stored
checkAuthStatus ==
  /\ ~authMounted
  /\ authMounted' = TRUE
  /\ IF storage.access_token # ""
       THEN /\ reqs' = reqs \cup {Req(nextReq, "checkAuthStatus", 0, "", "")}
            /\ nextReq' = nextReq + 1
            /\ last' = [op |-> "checkAuthStatus",
                        req |-> Req(nextReq, "checkAuthStatus", 0, "", "")]
            /\ UNCHANGED isLoading
       ELSE /\ isLoading' = FALSE
            /\ last' = [op |-> "checkAuthStatus", req |-> NoReq]
            /\ UNCHANGED <<reqs, nextReq>>
  /\ UNCHANGED <<user, isAuthenticated, loginLoading, loginError, account>>
  /\ UNCHANGED <<boardData, apiVars, pageVars, normVars>>

checkAuthStatusOk(r) ==
  /\ r \in reqs /\ r.kind = "checkAuthStatus" /\ r.phase = "ok"
  /\ user' = UserOf(account)
  /\ isAuthenticated' = TRUE
  /\ isLoading' = FALSE
  /\ reqs' = reqs \ {r}
  /\ last' = [op |-> "checkAuthStatusOk", req |-> r]
  /\ UNCHANGED <<authMounted, loginLoading, loginError, account, nextReq>>
  /\ UNCHANGED <<boardData, apiVars, pageVars, normVars>>

\* catch: both tokens are removed
checkAuthStatusFail(r) ==
  /\ r \in reqs /\ r.kind = "checkAuthStatus" /\ r.phase = "fail"
  /\ storage' = NoTokens
  /\ isLoading' = FALSE
  /\ reqs' = reqs \ {r}
  /\ last' = [op |-> "checkAuthStatusFail", req |-> r]
  /\ UNCHANGED <<user, isAuthenticated, authMounted, loginLoading, loginError,
                 account, nextReq>>
  /\ UNCHANGED <<boardData, location, calls, pageVars, normVars>>

\* LoginPage.handleSubmit: AuthContext.login up to await apiClient.login
LoginPage_handleSubmit ==
  /\ authMounted
  /\ location = LoginPath
  /\ \A q \in reqs : q.kind \notin {"login", "login.getMe"}
  /\ nextReq + 1 <= MaxReq
  /\ isLoading' = TRUE
  /\ reqs' = reqs \cup {Req(nextReq, "login", 0, "", "")}
  /\ nextReq' = nextReq + 1
  /\ last' = [op |-> "LoginPage_handleSubmit",
              req |-> Req(nextReq, "login", 0, "", "")]
  /\ UNCHANGED <<user, isAuthenticated, authMounted, loginLoading, loginError,
                 account>>
  /\ UNCHANGED <<boardData, apiVars, pageVars, normVars>>

\* variant: only the access token is stored before getMe
loginTokens_AccessOnly(r) ==
  /\ r \in reqs /\ r.kind = "login" /\ r.phase = "ok"
  /\ storage' = [storage EXCEPT !.access_token = Tokens.access_token]
  /\ reqs' = (reqs \ {r}) \cup {Req(nextReq, "login.getMe", 0, "", "")}
  /\ nextReq' = nextReq + 1
  /\ last' = [op |-> "loginTokens", req |-> r]
  /\ UNCHANGED authVars
  /\ UNCHANGED <<boardData, location, calls, pageVars, normVars>>

\* login after its first await: the tokens are stored, getMe is awaited
loginTokens(r) ==
  /\ r \in reqs /\ r.kind = "login" /\ r.phase = "ok"
  /\ storage' = Tokens
  /\ reqs' = (reqs \ {r}) \cup {Req(nextReq, "login.getMe", 0, "", "")}
  /\ nextReq' = nextReq + 1
  /\ last' = [op |-> "loginTokens", req |-> r]
  /\ UNCHANGED authVars
  /\ UNCHANGED <<boardData, location, calls, pageVars, normVars>>

\* login after its second await, then LoginPage: navigate('/dashboard')
loginOk(r) ==
  /\ r \in reqs /\ r.kind = "login.getMe" /\ r.phase = "ok"
  /\ user' = UserOf(account)
  /\ isAuthenticated' = TRUE
  /\ isLoading' = FALSE
  /\ location' = DashboardPath
  /\ reqs' = reqs \ {r}
  /\ last' = [op |-> "loginOk", req |-> r]
  /\ UNCHANGED <<authMounted, loginLoading, loginError, account, nextReq>>
  /\ UNCHANGED <<boardData, storage, calls, pageVars, normVars>>

\* either await of login fails: the error is rethrown; finally
\* setIsLoading(false).  Tokens that were stored stay stored.
loginFail(r) ==
  /\ r \in reqs /\ r.kind \in {"login", "login.getMe"} /\ r.phase = "fail"
  /\ isLoading' = FALSE
  /\ reqs' = reqs \ {r}
  /\ last' = [op |-> "loginFail", req |-> r]
  /\ UNCHANGED <<user, isAuthenticated, authMounted, loginLoading, loginError,
                 account, nextReq>>
  /\ UNCHANGED <<boardData, apiVars, pageVars, normVars>>

\* variant: the refresh token is left in the storage
logout_KeepRefresh ==
  /\ storage' = [storage EXCEPT !.access_token = ""]
  /\ user' = NoUser
  /\ isAuthenticated' = FALSE

\* AuthContext.logout
logout ==
  /\ storage' = NoTokens
  /\ user' = NoUser
  /\ isAuthenticated' = FALSE

\* Header.handleLogout: logout(); navigate('/login')
handleLogout ==
  /\ authMounted
  /\ Screen = "Header"
  /\ logout
  /\ location' = LoginPath
  /\ last' = [op |-> "handleLogout", req |-> NoReq]
  /\ UNCHANGED <<isLoading, authMounted, loginLoading, loginError, account>>
  /\ UNCHANGED <<boardData, reqs, nextReq, calls, pageVars, normVars>>

\* the links between the pages: Header "Administration" to /admin-login,
\* AdminLoginPage back button navigate('/'), which redirects to /dashboard
Link(path) ==
  /\ authMounted
  /\ \/ Screen = "Header" /\ path = AdminLoginPath
     \/ Screen = "AdminLoginPage" /\ path = DashboardPath
  /\ location' = path
  /\ last' = [op |-> "Link", req |-> NoReq]
  /\ UNCHANGED authVars
  /\ UNCHANGED <<boardData, reqs, nextReq, storage, calls, pageVars, normVars>>

\* AdminLoginPage.handleSubmit up to await apiClient.login
AdminLoginPage_handleSubmit ==
  /\ authMounted
  /\ Screen = "AdminLoginPage"
  /\ ~loginLoading
  /\ nextReq + Cardinality({q \in reqs : q.kind = "login"}) <= MaxReq
  /\ loginLoading' = TRUE
  /\ loginError' = ""
  /\ reqs' = reqs \cup {Req(nextReq, "adminLogin", 0, "", "")}
  /\ nextReq' = nextReq + 1
  /\ last' = [op |-> "AdminLoginPage_handleSubmit",
              req |-> Req(nextReq, "adminLogin", 0, "", "")]
  /\ UNCHANGED <<user, isAuthenticated, isLoading, authMounted, account>>
  /\ UNCHANGED <<boardData, apiVars, pageVars, normVars>>

\* response.access is set: navigate('/admin'); finally setLoading(false).
\* The tokens of the response are not stored and AuthContext is not told.
adminLoginOk(r) ==
  /\ r \in reqs /\ r.kind = "adminLogin" /\ r.phase = "ok"
  /\ location' = AdminPath
  /\ loginLoading' = FALSE
  /\ reqs' = reqs \ {r}
  /\ last' = [op |-> "adminLoginOk", req |-> r]
  /\ UNCHANGED <<user, isAuthenticated, isLoading, authMounted, loginError,
                 account, nextReq>>
  /\ UNCHANGED <<boardData, storage, calls, pageVars, normVars>>

adminLoginFail(r) ==
  /\ r \in reqs /\ r.kind = "adminLogin" /\ r.phase = "fail"
  /\ loginError' = ErrAdminLogin
  /\ loginLoading' = FALSE
  /\ reqs' = reqs \ {r}
  /\ last' = [op |-> "adminLoginFail", req |-> r]
  /\ UNCHANGED <<user, isAuthenticated, isLoading, authMounted, account,
                 nextReq>>
  /\ UNCHANGED <<boardData, apiVars, pageVars, normVars>>

\* <Navigate to="/admin-login" replace /> returned by ProtectedAdminRoute
AdminRedirect ==
  /\ Screen = "redirect"
  /\ location' = AdminLoginPath
  /\ last' = [op |-> "AdminRedirect", req |-> NoReq]
  /\ UNCHANGED authVars
  /\ UNCHANGED <<boardData, reqs, nextReq, storage, calls, pageVars, normVars>>

\* POST /auth/login/ with the credentials of the account: the token pair
ServerLogin(r) ==
  /\ r \in reqs /\ r.phase = "sent" /\ r.kind \in {"login", "adminLogin"}
  /\ Respond(r, "ok", [shape |-> "tokens", list |-> <<>>])
  /\ UNCHANGED <<boardData, nextReq, last>>
  /\ UNCHANGED <<apiVars, pageVars, authVars, normVars>>

\* GET /auth/me/ with a valid access token: the user of the account
ServerMe(r) ==
  /\ r \in reqs /\ r.phase = "sent"
  /\ r.kind \in {"checkAuthStatus", "login.getMe"}
  /\ storage.access_token # ""
  /\ Respond(r, "ok", [shape |-> "user", list |-> <<>>])
  /\ UNCHANGED <<boardData, nextReq, last>>
  /\ UNCHANGED <<apiVars, pageVars, authVars, normVars>>

AuthNext ==
  \/ checkAuthStatus
  \/ \E r \in reqs : checkAuthStatusOk(r)
  \/ \E r \in reqs : checkAuthStatusFail(r)
  \/ LoginPage_handleSubmit
  \/ \E r \in reqs : loginTokens(r)
  \/ \E r \in reqs : loginOk(r)
  \/ \E r \in reqs : loginFail(r)
  \/ handleLogout
  \/ \E path \in {AdminLoginPath, DashboardPath} : Link(path)
  \/ AdminLoginPage_handleSubmit
  \/ \E r \in reqs : adminLoginOk(r)
  \/ \E r \in reqs : adminLoginFail(r)
  \/ AdminRedirect
  \/ \E r \in reqs : ServerLogin(r)
  \/ \E r \in reqs : ServerMe(r)
  \/ \E r \in reqs : ServerFail(r)

AuthSpec == AuthSpecInit /\ [][AuthNext]_vars

\* C15: when AuthContext.logout has run, the storage holds neither
\* access_token nor refresh_token, user is null and isAuthenticated is false,
\* from whatever state it was called (authenticated or not, with or without
\* stored tokens, with or without requests in flight).
C15_LogoutClearsSession ==
  /\ [](last.op = "handleLogout"
          => /\ storage = NoTokens
             /\ user = NoUser
             /\ ~isAuthenticated)
  /\ [][(last'.op = "handleLogout" /\ last.op # "handleLogout")
          => /\ storage'.access_token = "" /\ storage'.refresh_token = ""
             /\ user' = NoUser
             /\ isAuthenticated' = FALSE]_vars

\* logout has run in a session that had logged in, while an admin login
\* is still in flight
C15_Witness ==
  /\ last.op = "handleLogout"
  /\ location = LoginPath
  /\ storage = NoTokens
  /\ \E r \in reqs : r.kind = "adminLogin"

(* ================== ApiClient: list normalisation ===================== *)
\* the lists of at most MaxLen items a response can carry
Items == {1, 2}
Lists == UNION {[1..n -> Items] : n \in 0..MaxLen}
Fields == {Absent, NonArray} \cup {ArrayOf(l) : l \in Lists}
ResponseData ==
  {BareArray(l) : l \in Lists} \cup {Object(r, d) : r \in Fields, d \in Fields}
    \cup {Falsy, Primitive}

NormSpecInit ==
  /\ BoardInit
  /\ PageInit
  /\ AuthInit
  /\ account = "member"
  /\ storage = Tokens
  /\ location = "/"
  /\ calls = [c \in 1..NumCalls |-> NoCall]
  /\ response \in ResponseData
  /\ normalized = NoResult

\* a list request is answered with status 200 and the body d
Receive(d) ==
  /\ normalized.done
  /\ response' = d
  /\ normalized' = NoResult
  /\ last' = [op |-> "Receive", req |-> NoReq]
  /\ UNCHANGED <<boardData, reqs, nextReq>>
  /\ UNCHANGED <<apiVars, pageVars, authVars>>

callGetProjects ==
  /\ ~normalized.done
  /\ normalized' = getProjects(response)
  /\ last' = [op |-> "getProjects", req |-> NoReq]
  /\ UNCHANGED <<boardData, reqs, nextReq, response>>
  /\ UNCHANGED <<apiVars, pageVars, authVars>>

callGetProjectTasks ==
  /\ ~normalized.done
  /\ normalized' = getProjectTasks(response)
  /\ last' = [op |-> "getProjectTasks", req |-> NoReq]
  /\ UNCHANGED <<boardData, reqs, nextReq, response>>
  /\ UNCHANGED <<apiVars, pageVars, authVars>>

NormNext ==
  \/ \E d \in ResponseData : Receive(d)
  \/ callGetProjects
  \/ callGetProjectTasks

NormSpec == NormSpecInit /\ [][NormNext]_vars

(* ============== the board while the route parameter changes ============ *)
\* KanbanPage passes parseInt(useParams().projectId) to KanbanBoard; a change
\* of the parameter keeps the mounted board and runs its effect again.
ProjectIds == 1..(NumProjects + 1)

KanbanPathOf(p) == "/projects/" \o ToString(p) \o "/kanban"

\* the projectId prop of KanbanBoard
projectId == CHOOSE p \in ProjectIds : location = KanbanPathOf(p)

\* the tasks of a project on the server
TasksOf(p) ==
  [i \in 1..NumTasks |->
     [id |-> (p - 1) * NumTasks + i, status |-> "TO_DO", updated_at |-> 0]]

\* apiClient.getProjectTasks(projectId) in flight
FetchReq(id, p) == [projectId |-> p] @@ Req(id, "fetch", 0, "", "")

ProjectInit ==
  /\ BoardInit
  /\ PageInit
  /\ AuthInit
  /\ account = "member"
  /\ NormInit
  /\ storage = [access_token |-> "A0", refresh_token |-> "R0"]
  /\ location = KanbanPathOf(1)
  /\ calls = [c \in 1..NumCalls |-> NoCall]

\* fetchTasks up to its await, with the projectId of the render it closes over
fetchTasksOf(op, p) ==
  /\ nextReq <= MaxReq
  /\ loading' = TRUE
  /\ error' = ""
  /\ reqs' = reqs \cup {FetchReq(nextReq, p)}
  /\ nextReq' = nextReq + 1
  /\ dragging' = 0
  /\ last' = [op |-> op, req |-> FetchReq(nextReq, p)]

\* the effect on mount
useEffectMount ==
  /\ ~mounted
  /\ mounted' = TRUE
  /\ fetchTasksOf("useEffect", projectId)
  /\ UNCHANGED <<tasks, activeTask, server, nextTaskId, lastTarget>>
  /\ UNCHANGED nonBoardVars

\* the route parameter changes to p: the effect runs again for [projectId];
\* requests in flight are left alone
useEffectProjectId(p) ==
  /\ mounted
  /\ p # projectId
  /\ location' = KanbanPathOf(p)
  /\ fetchTasksOf("useEffect", p)
  /\ UNCHANGED <<tasks, activeTask, mounted, server, nextTaskId, lastTarget>>
  /\ UNCHANGED <<storage, calls, pageVars, authVars, normVars>>

\* the Reessayer button: fetchTasks of the current render
RetryProject ==
  /\ View = "error"
  /\ fetchTasksOf("Retry", projectId)
  /\ UNCHANGED <<tasks, activeTask, mounted, server, nextTaskId, lastTarget>>
  /\ UNCHANGED nonBoardVars

\* GET /projects/{id}/tasks/: the tasks of the project named in the URL
ServerProjectTasks(r, shape) ==
  /\ r \in reqs /\ r.phase = "sent" /\ r.kind = "fetch"
  /\ Respond(r, "ok", [shape |-> shape, list |-> TasksOf(r.projectId)])
  /\ UNCHANGED <<tasks, loading, error, activeTask, dragging, mounted,
                 nextReq, server, nextTaskId, lastTarget, last>>
  /\ UNCHANGED nonBoardVars

ProjectNext ==
  \/ useEffectMount
  \/ \E p \in ProjectIds : useEffectProjectId(p)
  \/ RetryProject
  \/ \E r \in reqs : fetchTasksOk(r)
  \/ \E r \in reqs : fetchTasksFail(r)
  \/ \E r \in reqs, shape \in {"array", "results", "data"} :
       ServerProjectTasks(r, shape)
  \/ \E r \in reqs : ServerFail(r)

ProjectSpec == ProjectInit /\ [][ProjectNext]_vars

\* C16: getProjects and getProjectTasks return a bare array as it is, the
\* results array of an object that has one, otherwise the data array of an
\* object that has one, and for every other response body the empty list;
\* they raise no error for any body.
C16_ListNormalisation ==
  normalized.done =>
    /\ ~normalized.raised
    /\ normalized.list =
         IF response.kind = "array" THEN response.list
         ELSE IF response.results.array THEN response.results.list
         ELSE IF response.data.array THEN response.data.list
         ELSE <<>>

\* C10: a call is sent at most twice and makes at most one refresh call;
\* a 401 for the request that was sent again is rejected to the caller
\* without a refresh call and without another send.
C10_RetryAtMostOnce ==
  /\ [](\A c \in 1..NumCalls :
          /\ calls[c].sends <= 2
          /\ calls[c].refreshes <= 1
          /\ calls[c].sends = 2 => calls[c].retry)
  /\ [][\A c \in 1..NumCalls :
          (/\ calls[c].pc = "sent" /\ calls[c].sends = 2
           /\ calls'[c] # calls[c] /\ calls'[c].status = 401)
            => /\ calls'[c].pc = "done" /\ calls'[c].result = "rejected"
               /\ calls'[c].sends = 2 /\ calls'[c].refreshes = 1]_vars

\* the request that was sent again got 401 and has been rejected
C10_Witness ==
  \E c \in 1..NumCalls :
    /\ calls[c].pc = "done" /\ calls[c].result = "rejected"
    /\ calls[c].status = 401
    /\ calls[c].sends = 2 /\ calls[c].refreshes = 1
    /\ storage.refresh_token # ""

\* C11: a first 401 with a refresh token stored makes one refresh call; when
\* it succeeds the new access token is stored, the refresh token is left
\* as it is and the request is sent a second time with the new bearer
\* token; when that request succeeds the caller gets its result.
C11_SilentRefresh ==
  /\ [][\A c \in 1..NumCalls :
          /\ (/\ calls[c].pc = "sent" /\ ~calls[c].retry
              /\ calls'[c] # calls[c] /\ calls'[c].status = 401
              /\ storage.refresh_token # "")
               => /\ calls'[c].pc = "refreshing"
                  /\ calls'[c].refreshes = 1 /\ calls'[c].sends = 1
          /\ (calls[c].pc = "refreshing" /\ calls'[c].pc = "sent")
               => /\ storage'.access_token = NewAccess
                  /\ storage'.refresh_token = storage.refresh_token
                  /\ calls'[c].auth = "Bearer " \o NewAccess
                  /\ calls'[c].sends = 2 /\ calls'[c].refreshes = 1]_vars
  /\ [](\A c \in 1..NumCalls :
          (calls[c].pc = "done" /\ calls[c].sends = 2 /\ calls[c].status = 200)
            => /\ calls[c].result = "resolved"
               /\ calls[c].refreshes = 1
               /\ calls[c].auth = "Bearer " \o NewAccess)

\* a call that succeeded on its second send, credentials still stored
C11_Witness ==
  \E c \in 1..NumCalls :
    /\ calls[c].pc = "done" /\ calls[c].result = "resolved"
    /\ calls[c].sends = 2 /\ calls[c].refreshes = 1
    /\ calls[c].auth = "Bearer " \o NewAccess
    /\ storage = [access_token |-> NewAccess, refresh_token |-> "R0"]
    /\ location = "/"

\* C12: when the refresh call of a 401 fails, both credentials are removed
\* from storage, the location becomes /login, and the call is rejected
\* without having been sent again.
C12_RefreshFailureLogsOut ==
  [][\A c \in 1..NumCalls :
       (calls[c].pc = "refreshing" /\ calls'[c].pc = "done")
         => /\ storage' = [access_token |-> "", refresh_token |-> ""]
            /\ location' = "/login"
            /\ calls'[c].result = "rejected"
            /\ calls'[c].sends = 1 /\ calls[c].sends = 1]_vars

C12_Witness ==
  \E c \in 1..NumCalls :
    /\ calls[c].pc = "done" /\ calls[c].result = "rejected"
    /\ calls[c].status = 401
    /\ calls[c].sends = 1 /\ calls[c].refreshes = 1
    /\ storage = [access_token |-> "", refresh_token |-> ""]
    /\ location = "/login"

\* C13: an error that is not a 401 (403, 500, no response) is rejected in
\* the step that handles it, with no refresh call, no other send and no
\* change of the stored credentials or of the location; a call that never
\* got a 401 is rejected after one send.
C13_OtherErrorsNotRetried ==
  /\ [][\A c \in 1..NumCalls :
          (/\ calls[c].pc = "sent" /\ calls'[c] # calls[c]
           /\ calls'[c].status \notin {200, 401})
            => /\ calls'[c].pc = "done" /\ calls'[c].result = "rejected"
               /\ calls'[c].sends = calls[c].sends
               /\ calls'[c].refreshes = calls[c].refreshes
               /\ storage' = storage /\ location' = location]_vars
  /\ [](\A c \in 1..NumCalls :
          (calls[c].pc = "done" /\ ~calls[c].retry /\ calls[c].result = "rejected")
            => calls[c].sends = 1 /\ calls[c].refreshes = 0)

C13_Witness ==
  \E c \in 1..NumCalls :
    /\ calls[c].pc = "done" /\ calls[c].result = "rejected"
    /\ calls[c].status \in {403, 500, 0}
    /\ calls[c].sends = 1 /\ calls[c].refreshes = 0
    /\ storage = [access_token |-> "A0", refresh_token |-> "R0"]
    /\ location = "/"

(* ======================= properties of the board ======================= *)
StatusOf(ts, id) == Find(ts, id).status

\* the step handles the response of request r (the continuation after await)
Handles(r) ==
  r \in reqs /\ r.phase \in {"ok", "fail"} /\ \A q \in reqs' : q.id # r.id

\* the step sends request r
Sends(r) == r \in reqs' /\ \A q \in reqs : q.id # r.id

\* C1: when the updateTask request of a drag-end or move of task T fails,
\* then after the error handler has run T (if it is still in the collection)
\* has the status it had when the drag-end or move was handled, and the
\* error message is not empty.
C1_RollbackRestoresStatus ==
  (last.op = "updateTaskFail" /\ last.req.taskId \in Ids(tasks))
    => /\ StatusOf(tasks, last.req.taskId) = last.req.snapshot
       /\ StatusOf(tasks, last.req.taskId) # last.req.newStatus
       /\ error # ""

C1_Witness ==
  /\ last.op = "updateTaskFail"
  /\ last.req.taskId \in Ids(tasks)
  /\ InFlight("update", last.req.taskId) = {}
  /\ last.req.origin = last.req.snapshot
  /\ StatusOf(tasks, last.req.taskId) = last.req.snapshot
  /\ error = ErrUpdate

\* C2: for overlapping status changes of one task that all fail, once the
\* last error handler has run the task has the status from before the first
\* change of the sequence.
C2_RollbackToOriginal ==
  (/\ last.op = "updateTaskFail"
   /\ last.req.clean
   /\ InFlight("update", last.req.taskId) = {}
   /\ last.req.taskId \in Ids(tasks))
    => StatusOf(tasks, last.req.taskId) = last.req.origin

\* C3: handling the response of a status change that a later status change
\* of the same task has superseded leaves the task's in-memory status alone.
C3_StaleResponseHarmless ==
  [][\A r \in reqs :
       (/\ r.kind = "update"
        /\ Handles(r)
        /\ \E q \in reqs : q.kind = "update" /\ q.taskId = r.taskId /\ q.id > r.id)
         => StatusOf(tasks', r.taskId) = StatusOf(tasks, r.taskId)]_vars

\* C4: in the step in which a drag-end (or move) sends its updateTask
\* request, the task's in-memory status already is the new status.
C4_OptimisticBeforeResponse ==
  [][\A r \in reqs' :
       (r.kind = "update" /\ Sends(r))
         => /\ StatusOf(tasks', r.taskId) = r.newStatus
            /\ StatusOf(tasks, r.taskId) # r.newStatus]_vars

C4_Witness ==
  /\ last.op = "handleDragEnd"
  /\ last.req \in reqs
  /\ last.req.phase = "sent"
  /\ StatusOf(tasks, last.req.taskId) = last.req.newStatus

\* C5: when the status changes of a task since the collection was loaded
\* have all been confirmed and none is in flight, the task's in-memory
\* status is the target of the last of them, whatever the order of arrival.
C5_LastDragWins ==
  \A id \in TaskIds :
    (lastTarget[id] # "" /\ InFlight("update", id) = {})
      => id \in Ids(tasks) /\ StatusOf(tasks, id) = lastTarget[id]

\* two changes were applied by the server in the opposite order
C5_Witness ==
  \E id \in TaskIds :
    /\ lastTarget[id] # "" /\ InFlight("update", id) = {}
    /\ StatusOf(tasks, id) = lastTarget[id]
    /\ id \in Ids(server) /\ StatusOf(server, id) # lastTarget[id]

\* C6: handling the success of an updateTask request changes neither the
\* collection (the returned task is not merged) nor the error message nor
\* any other state of the board.
C6_SuccessIsNoOp ==
  [][\A r \in reqs :
       (r.kind = "update" /\ r.phase = "ok" /\ Handles(r))
         => UNCHANGED <<tasks, error, loading, activeTask>>]_vars

C6_Witness ==
  /\ last.op = "updateTaskOk"
  /\ last.req.taskId \in Ids(tasks)
  /\ StatusOf(tasks, last.req.taskId) = last.req.newStatus
  /\ Find(tasks, last.req.taskId) # last.req.body.list[1]

\* what the board branch renders: the tasks of each column, nothing when
\* the spinner or the error panel is returned instead
Column(status) == IF View = "board" THEN filteredTasks(tasks, status) ELSE <<>>

\* C7: after a failed drag from TO_DO to DONE the task is rendered in the
\* TO_DO column while the error message is displayed.
C7_RollbackVisible ==
  (/\ last.op = "updateTaskFail"
   /\ last.req.snapshot = "TO_DO" /\ last.req.newStatus = "DONE"
   /\ last.req.taskId \in Ids(tasks))
    => /\ error # ""
       /\ last.req.taskId \in Ids(Column("TO_DO"))

\* C8: a handled fetch replaces the collection: by the returned list on
\* success, by the empty list on failure, where the error is set and
\* loading is false, so that the error panel with Retry is rendered.
C8_FetchReplaces ==
  /\ last.op = "fetchTasksOk" =>
       /\ ~loading
       /\ last.req.body.shape \in {"array", "results", "data"}
            => tasks = last.req.body.list
       /\ last.req.body.shape \notin {"array", "results", "data"}
            => tasks = <<>>
  /\ last.op = "fetchTasksFail" =>
       tasks = <<>> /\ error = ErrFetch /\ ~loading /\ View = "error"

\* a failed fetch while the backend does hold tasks
C8_Witness ==
  /\ last.op = "fetchTasksFail"
  /\ tasks = <<>> /\ View = "error"
  /\ server # <<>>

\* C9: handleTaskDelete leaves the collection as it is when it sends the
\* request and when the request fails (then the error is set); a task
\* leaves the collection only when the success of its delete request is
\* handled, or when a fetch replaces the collection.
C9_DeleteAfterConfirmation ==
  [][/\ \A r \in reqs' : (r.kind = "delete" /\ Sends(r))
          => tasks' = tasks /\ r.taskId \in Ids(tasks')
     /\ \A r \in reqs : (r.kind = "delete" /\ r.phase = "fail" /\ Handles(r))
          => tasks' = tasks /\ error' = ErrDelete
     /\ \A id \in Ids(tasks) \ Ids(tasks') :
          \/ \E r \in reqs : /\ r.kind = "delete" /\ r.taskId = id
                             /\ r.phase = "ok" /\ Handles(r)
          \/ \E r \in reqs : r.kind = "fetch" /\ Handles(r)]_vars

\* the backend has deleted the task, the response is not handled yet
C9_Witness ==
  \E r \in reqs :
    /\ r.kind = "delete" /\ r.phase = "ok"
    /\ r.taskId \in Ids(tasks)
    /\ r.taskId \notin Ids(server)

\* the step changes at most the status of task id: the collection keeps its
\* length and order, every other task and every other field of the task are
\* as before
OnlyStatusOf(id) ==
  /\ Len(tasks') = Len(tasks)
  /\ \A i \in DOMAIN tasks :
       /\ tasks'[i].id = tasks[i].id
       /\ tasks'[i].updated_at = tasks[i].updated_at
       /\ tasks[i].id # id => tasks'[i] = tasks[i]

\* C17: the step of handleDragEnd or handleTaskMove that sends the PATCH and
\* the step that handles its failure change nothing in the collection but
\* the status of the moved task, and the payload of the PATCH has the status
\* field only.
C17_OnlyStatusChanges ==
  [][/\ \A r \in reqs' : (r.kind = "update" /\ Sends(r))
          => /\ OnlyStatusOf(r.taskId)
             /\ StatusOf(tasks', r.taskId) = r.newStatus
             /\ DOMAIN updateData(r) = {"status"}
     /\ \A r \in reqs : (r.kind = "update" /\ r.phase = "fail" /\ Handles(r))
          => OnlyStatusOf(r.taskId)]_vars

\* the failure of a status change has been handled on a board with another
\* task, and the moved task has its status and its other fields back
C17_Witness ==
  /\ last.op = "updateTaskFail"
  /\ Len(tasks) >= 2
  /\ Find(tasks, last.req.taskId) = Find(server, last.req.taskId)
  /\ Find(tasks, last.req.taskId).updated_at # 0

\* C18: in every reachable state of the board every task of the in-memory
\* collection has one of the three statuses, and every status change
\* request that handleDragEnd or handleTaskMove has sent carries one of the
\* three statuses.
C18_StatusDomain ==
  /\ \A i \in DOMAIN tasks : tasks[i].status \in Statuses
  /\ \A r \in reqs : r.kind = "update" => r.newStatus \in Statuses

\* C19: at /admin the children of ProtectedAdminRoute are rendered only for
\* an authenticated user with is_staff or is_superuser; an unauthenticated
\* session gets the redirect, which is the only way such a session leaves
\* /admin and leads to /admin-login, and an authenticated user with neither
\* flag gets the access-denied panel.
C19_AdminRouteGuard ==
  /\ [](location = AdminPath =>
          /\ Screen = "children"
               => isAuthenticated /\ (user.is_staff \/ user.is_superuser)
          /\ ~isAuthenticated => Screen = "redirect"
          /\ (isAuthenticated /\ ~user.is_staff /\ ~user.is_superuser)
               => Screen = "denied")
  /\ [][(/\ location = AdminPath /\ ~isAuthenticated
          /\ location' # location /\ ~isAuthenticated')
          => location' = AdminLoginPath /\ last'.op = "AdminRedirect"]_vars

\* a staff user is shown the admin page
C19_Witness ==
  /\ location = AdminPath
  /\ Screen = "children"
  /\ isAuthenticated /\ user.is_staff

\* C20: when the response of a successful login of an administrator account
\* on the admin login page is handled in a session that is not authenticated
\* and has no stored tokens, the route becomes /admin and
\* ProtectedAdminRoute renders the admin page there.
C20_AdminLoginReachesAdmin ==
  [][\A r \in reqs :
       (/\ r.kind = "adminLogin" /\ r.phase = "ok" /\ Handles(r)
        /\ account \in {"staff", "superuser"}
        /\ ~isAuthenticated /\ storage = NoTokens)
         => /\ location' = AdminPath
            /\ ProtectedAdminRoute(isAuthenticated', user') = "children"]_vars

MoveHandlers == {"handleDragEnd", "handleTaskMove"}

\* C21: handleDragEnd and handleTaskMove send an updateTask request only for
\* a drop target, a task of the collection and a status other than the one
\* the task has; in every other case the step sends no request and leaves
\* the collection, the error message and the requests in flight as they are
\* (a drag-end still clears activeTask).
C21_NoOpMoves ==
  [][/\ \A r \in reqs' : (r.kind = "update" /\ Sends(r))
          => /\ r.taskId \in Ids(tasks)
             /\ StatusOf(tasks, r.taskId) # r.newStatus
             /\ r.newStatus # NoOver
             /\ last'.op \in MoveHandlers /\ last'.req = r
     /\ (/\ last'.op \in MoveHandlers /\ last'.req = NoReq
         /\ (last' # last \/ dragging' # dragging))
          => /\ tasks' = tasks /\ error' = error /\ reqs' = reqs
             /\ loading' = loading /\ server' = server
             /\ activeTask' \in {activeTask, NoTask}
             /\ last'.op = "handleDragEnd" => activeTask' = NoTask]_vars

\* a drag of a task has ended without a request while the task is in the
\* collection and another request is in flight
C21_Witness ==
  /\ last.op = "handleDragEnd" /\ last.req = NoReq
  /\ activeTask = NoTask
  /\ tasks # <<>>
  /\ \E r \in reqs : r.kind = "update" /\ r.phase = "sent"

ListShapes == {"array", "results", "data"}

\* C22: task creation is never optimistic.  A create request goes out only
\* with a title that is not blank, and sending it leaves the collection as it
\* is; a submit with a blank title sends nothing and changes nothing; a task
\* enters the collection only when a fetch response is handled; handling a
\* failed create leaves the collection unchanged and sends nothing; handling
\* a successful create leaves the collection unchanged and sends a fetch;
\* and when the response of that fetch (a task list) is handled with nothing
\* else in flight, the collection holds the created task as that response
\* returned it.
C22_CreateNotOptimistic ==
  [][/\ \A r \in reqs' : (r.kind = "create" /\ Sends(r))
          => /\ Trim(r.title) # << >>
             /\ tasks' = tasks
             /\ last' = [op |-> "handleSubmit", req |-> r]
     /\ (last'.op = "handleSubmit" /\ last'.req = NoReq /\ last' # last)
          => /\ reqs' = reqs /\ tasks' = tasks /\ server' = server
             /\ loading' = loading /\ error' = error
     /\ ~(Ids(tasks') \subseteq Ids(tasks))
          => \E f \in reqs : f.kind = "fetch" /\ f.phase = "ok" /\ Handles(f)
     /\ \A r \in reqs : (r.kind = "create" /\ Handles(r))
          => /\ tasks' = tasks
             /\ IF r.phase = "fail"
                  THEN reqs' = reqs \ {r}
                  ELSE \E f \in reqs' :
                         /\ Sends(f) /\ f.kind = "fetch"
                         /\ f.taskId = r.body.list[1].id
                         /\ reqs' = (reqs \ {r}) \cup {f}
     /\ \A f \in reqs : (/\ f.kind = "fetch" /\ f.phase = "ok" /\ f.taskId # 0
                         /\ Handles(f) /\ reqs' = {}
                         /\ f.body.shape \in ListShapes)
          => /\ f.taskId \in Ids(tasks')
             /\ f.taskId \in Ids(f.body.list)
             /\ Find(tasks', f.taskId) = Find(f.body.list, f.taskId)]_vars

C22_Witness ==
  /\ last.op = "fetchTasksOk" /\ last.req.taskId # 0
  /\ last.req.body.shape \in ListShapes
  /\ reqs = {}
  /\ last.req.taskId \in Ids(tasks)
  /\ Len(tasks) = NumTasks + 1


LoginKinds == {"login", "login.getMe"}

\* C23: AuthContext.login.  getMe is requested only in the step that handles
\* the successful login call, and after that step both tokens are in the
\* storage; handling the successful getMe sets user, makes isAuthenticated
\* true and isLoading false; handling a failure of either call leaves user
\* and isAuthenticated as they were, makes isLoading false, sends nothing and
\* does not navigate (the error is thrown to the caller).
C23_LoginOutcome ==
  [][/\ \A r \in reqs' : (r.kind = "login.getMe" /\ Sends(r))
          => /\ storage'.access_token = Tokens.access_token
             /\ storage'.refresh_token = Tokens.refresh_token
             /\ \E q \in reqs : q.kind = "login" /\ q.phase = "ok" /\ Handles(q)
             /\ user' = user /\ isAuthenticated' = isAuthenticated
     /\ \A r \in reqs : (r.kind = "login.getMe" /\ r.phase = "ok" /\ Handles(r))
          => /\ user' = UserOf(account)
             /\ isAuthenticated' /\ ~isLoading'
     /\ \A r \in reqs : (r.kind \in LoginKinds /\ r.phase = "fail" /\ Handles(r))
          => /\ user' = user /\ isAuthenticated' = isAuthenticated
             /\ ~isLoading'
             /\ location' = location
             /\ reqs' = reqs \ {r}]_vars

C23_Witness ==
  /\ last.op = "loginFail" /\ last.req.kind = "login.getMe"
  /\ ~isLoading /\ ~isAuthenticated /\ user = NoUser
  /\ location = LoginPath

\* C28: a failed AuthContext.login leaves no credentials behind.  When the
\* failure of the login call is handled the storage is as it was, and when
\* the failure of the getMe that follows a successful login call is handled
\* and isAuthenticated is false, the storage holds neither token.
C28_FailedLoginLeavesNoTokens ==
  [][\A r \in reqs : (r.kind \in LoginKinds /\ r.phase = "fail" /\ Handles(r))
        => IF r.kind = "login"
             THEN storage' = storage
             ELSE ~isAuthenticated' => storage' = NoTokens]_vars

\* the step rejects call c to its caller
Rejects(c) ==
  /\ calls[c].pc # "done"
  /\ calls'[c].pc = "done" /\ calls'[c].result = "rejected"

\* C24: whenever a call is rejected to its caller with a 401, the storage
\* holds neither token after that step and the location is the login page,
\* also when the 401 came while no refresh token was stored.
C24_Unrecoverable401ClearsSession ==
  [][\A c \in 1..NumCalls : (Rejects(c) /\ calls'[c].status = 401)
        => /\ storage' = [access_token |-> "", refresh_token |-> ""]
           /\ location' = "/login"]_vars

LoginUrl == "/auth/login/"

\* C30: a 401 of the login endpoint is only rejected to the caller.  In every
\* step that changes a call to the login endpoint, the call has made no
\* refresh and has been sent once, the storage and the location are left as
\* they are, and a call that got a 401 is rejected.
C30_Login401OnlyRejected ==
  [][\A c \in 1..NumCalls :
        (calls'[c].url = LoginUrl /\ calls'[c] # calls[c])
          => /\ calls'[c].refreshes = 0
             /\ calls'[c].sends = 1
             /\ storage' = storage
             /\ location' = location
             /\ calls'[c].status = 401
                  => calls'[c].pc = "done" /\ calls'[c].result = "rejected"]_vars

\* C25: client and server converge after overlapping moves.  When the last
\* of several status-change requests for one task that were in flight
\* together has been acknowledged, all of them having succeeded, the status
\* of the task in the collection is its status on the server, whatever the
\* order in which the server received them.
C25_OverlappingMovesConverge ==
  (/\ last.op = "updateTaskOk" /\ ~last.req.clean
   /\ InFlight("update", last.req.taskId) = {}
   /\ error = ""
   /\ last.req.taskId \in Ids(tasks))
    => StatusOf(tasks, last.req.taskId) = StatusOf(server, last.req.taskId)

\* C26: a full refresh interleaved with a pending move does not lose the
\* move.  When a status-change request that was the only one of its task
\* (none in flight when it was sent, none confirmed or left in flight since)
\* has succeeded and nothing is in flight any more, fetch responses handled
\* in between included, the task has the requested status in the collection
\* and on the server.
C26_RefreshKeepsPendingMove ==
  (/\ last.op = "updateTaskOk"
   /\ last.req.clean /\ last.req.origin = last.req.snapshot
   /\ reqs = {}
   /\ last.req.taskId \in Ids(tasks))
    => /\ StatusOf(tasks, last.req.taskId) = last.req.newStatus
       /\ StatusOf(server, last.req.taskId) = last.req.newStatus

\* C27: the collection belongs to the current project once loading has
\* settled.  When a fetch response has been handled, no request is in flight
\* and no error is shown, the collection is the task list of the current
\* projectId, in whatever order the responses were handled.
C27_CollectionOfCurrentProject ==
  (/\ last.op = "fetchTasksOk"
   /\ reqs = {} /\ ~loading /\ error = "")
    => tasks = TasksOf(projectId)

\* the handlers that only the rendered columns offer
ColumnHandlers == {"handleDragStart", "handleDragEnd", "handleTaskMove",
                   "handleTaskDelete"}

\* what a step does while the error is set (shared by the two statements
\* of C29): no drag, move or delete handler runs and no update or delete
\* request is sent; the error is cleared only in a step that sends a fetch;
\* handling the success of an update, delete or fetch leaves the error.
ErrorSticks ==
  error # "" =>
    /\ last' # last => last'.op \notin ColumnHandlers
    /\ \A r \in reqs' : Sends(r) => r.kind \notin {"update", "delete"}
    /\ error' = "" => \E f \in reqs' : Sends(f) /\ f.kind = "fetch"
    /\ \A r \in reqs : (/\ r.kind \in {"update", "delete", "fetch"}
                        /\ r.phase = "ok" /\ Handles(r))
         => error' = error

====
